---- MODULE Spec2Model ----
(***************************************************************************)
(* A model of twisted/protocols/osc.py: the OSC wire codec (arguments,     *)
(* messages, bundles), the sender/receiver pair that carries encoded       *)
(* packets, and the construction of Bundle objects.                        *)
(*                                                                         *)
(* A byte string is a sequence of integers 0..255.  An argument is a       *)
(* record [cls, value]; value is always a sequence of integers:            *)
(*   Int      <<n>>            n a Python int                              *)
(*   Float    <<s, e, m>>      the sign, exponent and mantissa fields of   *)
(*                             a value that is exact in IEEE-754 single    *)
(*   String   the characters   Blob  the bytes                             *)
(*   TimeTag  <<h>>            the value h/2 seconds (exact in binary)     *)
(*   Boolean  <<1>> or <<0>>   Null, Impulse  <<>> (value None)            *)
(* A call returns a record whose field kind is "ok" or the name of the     *)
(* exception the call raises.                                              *)
(***************************************************************************)
EXTENDS Integers, Sequences, FiniteSets, TLC

VARIABLES pc, obj, buf, rest, res, heap, bundles, last

vars == <<pc, obj, buf, rest, res, heap, bundles, last>>

codecVars == <<pc, obj, buf, rest, res>>

bundleVars == <<heap, bundles, last>>

(***************************************************************************)
(* Bounds of the explored inputs.                                          *)
(***************************************************************************)
MaxStrLen == 4

MaxBlobLen == 4

MaxRestLen == 2

MaxArgs == 2

MaxRawLen == 5

MaxElems == 2

MaxBundles == 3

MaxListLen == 2

SeqsUpTo(S, n) == UNION {[1..k -> S] : k \in 0..n}

(***************************************************************************)
(* Python and struct primitives used by the module.                        *)
(***************************************************************************)
\* Position of a slice bound in a sequence of length n (negative bounds
\* count from the end, all bounds are clamped).
PyIndex(i, n) ==
    IF i < 0 THEN (IF i + n < 0 THEN 0 ELSE i + n)
             ELSE (IF i > n THEN n ELSE i)

\* data[lo:hi]
PySlice(data, lo, hi) ==
    SubSeq(data, PyIndex(lo, Len(data)) + 1, PyIndex(hi, Len(data)))

\* data[lo:]
PyFrom(data, lo) == SubSeq(data, PyIndex(lo, Len(data)) + 1, Len(data))

\* string.find(data, "\0"): index of the first NUL, -1 when there is none
FindNul(data) ==
    IF \E i \in 1..Len(data) : data[i] = 0
    THEN (CHOOSE i \in 1..Len(data) :
             data[i] = 0 /\ \A j \in 1..(i - 1) : data[j] # 0) - 1
    ELSE -1

\* struct.pack(">i", n) for n in the int32 range: big-endian two's complement
PackInt(n) ==
    << (n \div 16777216) % 256, (n \div 65536) % 256,
       (n \div 256) % 256, n % 256 >>

\* struct.unpack(">i", d)[0] for a 4-byte d
UnpackInt(d) ==
    (IF d[1] >= 128 THEN d[1] - 256 ELSE d[1]) * 16777216
        + d[2] * 65536 + d[3] * 256 + d[4]

\* struct.pack(">f", v): sign, exponent, mantissa fields, big-endian
PackFloat(v) ==
    << v[1] * 128 + (v[2] \div 2), (v[2] % 2) * 128 + (v[3] \div 65536),
       (v[3] \div 256) % 256, v[3] % 256 >>

\* struct.unpack(">f", d)[0] for a 4-byte d
UnpackFloat(d) ==
    << d[1] \div 128, (d[1] % 128) * 2 + (d[2] \div 128),
       (d[2] % 128) * 65536 + d[3] * 256 + d[4] >>

\* struct.pack(">%ds" % length, s): s cut or NUL-padded to length bytes
PackStr(length, s) ==
    [i \in 1..length |-> IF i <= Len(s) THEN s[i] ELSE 0]

Ok(data) == [kind |-> "ok", data |-> data]

Raise(exc) == [kind |-> exc, data |-> <<>>]

Decoded(value, leftover) ==
    [kind |-> "ok", value |-> value, leftover |-> leftover]

RaiseDecode(exc) == [kind |-> exc, value |-> <<>>, leftover |-> <<>>]

(***************************************************************************)
(* The alignment utility.                                                  *)
(***************************************************************************)
ceilToMultipleOfFourGE(num) == ((num + 3) \div 4) * 4

ceilToMultipleOfFour(num) == num + (4 - (num % 4))

(***************************************************************************)
(* Arguments.                                                              *)
(***************************************************************************)
Arg(cls, value) == [cls |-> cls, value |-> value]

\* the typeTag attribute of an argument
typeTag(a) ==
    CASE a.cls = "Blob" -> 98
      [] a.cls = "String" -> 115
      [] a.cls = "Int" -> 105
      [] a.cls = "Float" -> 102
      [] a.cls = "TimeTag" -> 116
      [] a.cls = "Boolean" -> (IF a.value # <<0>> THEN 84 ELSE 70)
      [] a.cls = "Null" -> 78
      [] a.cls = "Impulse" -> 73

BlobToBinary(value) ==
    LET sz == Len(value)
        length == ceilToMultipleOfFour(sz)
    IN  PackInt(sz) \o PackStr(length, value)

StringToBinary(value) ==
    LET length == ((Len(value) + 1 + 3) \div 4) * 4
    IN  PackStr(length, value)

IntToBinary(value) == PackInt(value[1])

FloatToBinary(value) == PackFloat(value)

TimeTagToBinary(value) ==
    LET sec == value[1] \div 2
        fr9 == (value[1] % 2) * 500000000
    IN  PackInt(sec) \o PackInt(fr9)

\* a.toBinary(); Null and Impulse inherit Argument.toBinary, which calls
\* the NotImplemented singleton and so raises TypeError
ArgToBinary(a) ==
    CASE a.cls = "Blob" -> Ok(BlobToBinary(a.value))
      [] a.cls = "String" -> Ok(StringToBinary(a.value))
      [] a.cls = "Int" -> Ok(IntToBinary(a.value))
      [] a.cls = "Float" -> Ok(FloatToBinary(a.value))
      [] a.cls = "TimeTag" -> Ok(TimeTagToBinary(a.value))
      [] a.cls = "Boolean" -> Ok(<<>>)
      [] OTHER -> Raise("TypeError")

strFromBinary(data) ==
    LET null_pos == FindNul(data)
        s == PySlice(data, 0, null_pos)
        i == ceilToMultipleOfFour(null_pos)
    IN  << s, PyFrom(data, i) >>

StringFromBinary(data) ==
    LET r == strFromBinary(data)
    IN  Decoded(Arg("String", r[1]), r[2])

\* slicing never raises IndexError, so neither handler runs; a short
\* data[0:4] makes struct.unpack raise struct.error
BlobFromBinary(data) ==
    LET d4 == PySlice(data, 0, 4)
    IN  IF Len(d4) # 4 THEN RaiseDecode("struct.error")
        ELSE LET length == UnpackInt(d4)
                 index_of_leftover == ceilToMultipleOfFour(length) + 4
                 blob_data == PySlice(data, 4, length + 4)
             IN  Decoded(Arg("Blob", blob_data),
                         PyFrom(data, index_of_leftover))

IntFromBinary(data) ==
    LET d4 == PySlice(data, 0, 4)
    IN  IF Len(d4) # 4 THEN RaiseDecode("struct.error")
        ELSE Decoded(Arg("Int", <<UnpackInt(d4)>>), PyFrom(data, 4))

FloatFromBinary(data) ==
    LET d4 == PySlice(data, 0, 4)
    IN  IF Len(d4) # 4 THEN RaiseDecode("struct.error")
        ELSE Decoded(Arg("Float", UnpackFloat(d4)), PyFrom(data, 4))

\* cls.fromBinary(data); the classes that do not override it inherit
\* Argument.fromBinary, which raises TypeError
ArgFromBinary(cls, data) ==
    CASE cls = "Blob" -> BlobFromBinary(data)
      [] cls = "String" -> StringFromBinary(data)
      [] cls = "Int" -> IntFromBinary(data)
      [] cls = "Float" -> FloatFromBinary(data)
      [] OTHER -> RaiseDecode("TypeError")

\* the _tags registry: type tag character -> class
tags == (98 :> "Blob") @@ (102 :> "Float") @@ (105 :> "Int")
            @@ (115 :> "String")

(***************************************************************************)
(* Messages.                                                               *)
(***************************************************************************)
Message(address, arguments) ==
    [address |-> address, arguments |-> arguments]

getTypeTags(m, padWithZeros) ==
    LET s == [i \in 1..Len(m.arguments) |-> typeTag(m.arguments[i])]
        length == Len(s)
        pad == ceilToMultipleOfFour(length) - length
    IN  IF padWithZeros THEN s \o [i \in 1..pad |-> 0] ELSE s

\* "".join([a.toBinary() for a in arguments])
RECURSIVE JoinToBinary(_)
JoinToBinary(arguments) ==
    IF arguments = <<>> THEN Ok(<<>>)
    ELSE LET b == ArgToBinary(Head(arguments))
         IN  IF b.kind # "ok" THEN b
             ELSE LET r == JoinToBinary(Tail(arguments))
                  IN  IF r.kind # "ok" THEN r ELSE Ok(b.data \o r.data)

MessageToBinary(m) ==
    LET args == JoinToBinary(m.arguments)
    IN  IF args.kind # "ok" THEN args
        ELSE Ok(StringToBinary(m.address) \o <<44>> \o getTypeTags(m, TRUE)
                  \o args.data)

\* the loop over type_tags[1:]; an unregistered tag makes _tags[type_tag]
\* raise KeyError, an exception of an argument decoder propagates
RECURSIVE DecodeArguments(_, _, _)
DecodeArguments(type_tags, leftover, arguments) ==
    IF type_tags = <<>> THEN Decoded(arguments, leftover)
    ELSE IF Head(type_tags) \notin DOMAIN tags THEN RaiseDecode("KeyError")
    ELSE LET r == ArgFromBinary(tags[Head(type_tags)], leftover)
         IN  IF r.kind # "ok" THEN r
             ELSE DecodeArguments(Tail(type_tags), r.leftover,
                                  Append(arguments, r.value))

MessageFromBinary(data) ==
    LET a == strFromBinary(data)
        osc_address == a[1]
        t == strFromBinary(a[2])
        type_tags == t[1]
        leftover == t[2]
    IN  IF type_tags # <<44>>
        THEN LET r == DecodeArguments(PyFrom(type_tags, 1), leftover, <<>>)
             IN  IF r.kind # "ok" THEN r
                 ELSE Decoded(Message(osc_address, r.value), r.leftover)
        ELSE Decoded(Message(osc_address, <<>>), leftover)

(***************************************************************************)
(* Bundles.                                                                *)
(***************************************************************************)
Bundle(messages, time_tag) == [messages |-> messages, time_tag |-> time_tag]

IsMessage(e) == "address" \in DOMAIN e

\* the literal "#bundle"
BundleLiteral == <<35, 98, 117, 110, 100, 108, 101>>

RECURSIVE BundleToBinary(_)
\* msg.toBinary() for an element of a bundle
toBinary(msg) ==
    IF IsMessage(msg) THEN MessageToBinary(msg) ELSE BundleToBinary(msg)

\* the loop "for msg in self.messages"
RECURSIVE BundleElements(_, _)
BundleElements(messages, data) ==
    IF messages = <<>> THEN Ok(data)
    ELSE LET binary == toBinary(Head(messages))
         IN  IF binary.kind # "ok" THEN binary
             ELSE BundleElements(Tail(messages),
                      data \o IntToBinary(<<Len(binary.data)>>)
                           \o binary.data)

BundleToBinary(b) ==
    BundleElements(b.messages,
                   BundleLiteral \o TimeTagToBinary(<<b.time_tag>>))

(***************************************************************************)
(* The inputs the operations are applied to.                               *)
(***************************************************************************)
IntValues == {0, 1, -1, 256, 16909060, 2147483647, -2147483647 - 1}

\* 0.0, 1.0, -3.0, 0.5 as sign, exponent, mantissa
FloatValues == {<<0, 0, 0>>, <<0, 127, 0>>, <<1, 128, 4194304>>,
                <<0, 126, 0>>}

\* the characters "/", "a", "b"
StringValues == SeqsUpTo({47, 97, 98}, MaxStrLen)

BlobValues == SeqsUpTo({0, 7, 255}, MaxBlobLen)

\* 0 s, 1 s, 1.5 s
TimeTagValues == {0, 2, 3}

Arguments ==
    {Arg("Int", <<n>>) : n \in IntValues}
      \cup {Arg("Float", f) : f \in FloatValues}
      \cup {Arg("String", v) : v \in StringValues}
      \cup {Arg("Blob", v) : v \in BlobValues}
      \cup {Arg("TimeTag", <<h>>) : h \in TimeTagValues}
      \cup {Arg("Boolean", <<1>>), Arg("Boolean", <<0>>),
            Arg("Null", <<>>), Arg("Impulse", <<>>)}

Rests == SeqsUpTo({0, 47, 255}, MaxRestLen)

\* "/foo", "/a", "/ab"
Addresses == {<<47, 102, 111, 111>>, <<47, 97>>, <<47, 97, 98>>}

\* the arguments messages are built from; the string is "bar"
MessageArguments ==
    {Arg("Int", <<1>>), Arg("Int", <<0>>), Arg("Int", <<-1>>),
     Arg("Float", <<0, 127, 0>>),
     Arg("String", <<98, 97, 114>>), Arg("String", <<>>),
     Arg("Blob", <<1, 2, 3, 4>>), Arg("Blob", <<0>>),
     Arg("TimeTag", <<3>>),
     Arg("Boolean", <<1>>), Arg("Boolean", <<0>>),
     Arg("Null", <<>>), Arg("Impulse", <<>>)}

Messages ==
    {Message(a, args) : a \in Addresses,
                        args \in SeqsUpTo(MessageArguments, MaxArgs)}

\* bytes a peer may send: NUL, 1, ",", "/", "i"
RawBytes == {0, 1, 44, 47, 105}

\* "/a" NUL NUL "," tag NUL NUL for the tags b f i s t x
PacketHeads ==
    {<<47, 97, 0, 0, 44, t, 0, 0>> : t \in {98, 102, 105, 115, 116, 120}}

RawBuffers ==
    SeqsUpTo(RawBytes, MaxRawLen)
      \cup {h \o d : h \in PacketHeads, d \in SeqsUpTo({0, 1, 47}, MaxRawLen)}

BundleMessages ==
    {Message(<<47, 102, 111, 111>>,
             <<Arg("Int", <<1>>), Arg("String", <<98, 97, 114>>)>>),
     Message(<<47, 97>>, <<>>)}

BundleTimeTags == {0, 3}

InnerBundles ==
    {Bundle(ms, t) : ms \in SeqsUpTo(BundleMessages, MaxElems),
                     t \in BundleTimeTags}

Bundles ==
    {Bundle(ms, t) : ms \in SeqsUpTo(BundleMessages \cup InnerBundles,
                                     MaxElems),
                     t \in BundleTimeTags}

Packets == BundleMessages \cup Bundles

(***************************************************************************)
(* The codec operations as steps.  obj is the object (or class) the last   *)
(* call was made on, buf the byte string it produced or was given, rest    *)
(* the bytes that follow an encoding in the buffer handed to a decoder,    *)
(* res the result of the last call.  A behaviour is one call on an input,  *)
(* followed where it applies by the decoding of what the call produced.    *)
(***************************************************************************)
None == <<>>

Init ==
    /\ pc = "start"
    /\ obj = None
    /\ buf = <<>>
    /\ rest = <<>>
    /\ res = [kind |-> "none"]
    /\ heap = << <<>> >>
    /\ bundles = <<>>
    /\ last = [op |-> "none"]

\* a.toBinary()
CallArgumentToBinary ==
    /\ pc = "start"
    /\ \E a \in Arguments :
          LET r == ArgToBinary(a)
          IN  obj' = a /\ res' = r /\ buf' = r.data
    /\ rest' = <<>>
    /\ pc' = "Argument.toBinary"
    /\ UNCHANGED bundleVars

\* X.fromBinary(X(v).toBinary() + rest)
CallArgumentFromBinary ==
    /\ pc = "Argument.toBinary"
    /\ res.kind = "ok"
    /\ \E r \in Rests :
          rest' = r /\ res' = ArgFromBinary(obj.cls, buf \o r)
    /\ pc' = "Argument.fromBinary"
    /\ UNCHANGED <<obj, buf>>
    /\ UNCHANGED bundleVars

\* X.fromBinary(data) for a registered class X and any data
CallArgumentFromBinaryRaw ==
    /\ pc = "start"
    /\ \E t \in DOMAIN tags, d \in RawBuffers :
          obj' = tags[t] /\ buf' = d /\ res' = ArgFromBinary(tags[t], d)
    /\ rest' = <<>>
    /\ pc' = "Argument.fromBinary(raw)"
    /\ UNCHANGED bundleVars

\* m.toBinary()
CallMessageToBinary ==
    /\ pc = "start"
    /\ \E m \in Messages :
          LET r == MessageToBinary(m)
          IN  obj' = m /\ res' = r /\ buf' = r.data
    /\ rest' = <<>>
    /\ pc' = "Message.toBinary"
    /\ UNCHANGED bundleVars

\* Message.fromBinary(m.toBinary())
CallMessageFromBinary ==
    /\ pc = "Message.toBinary"
    /\ res.kind = "ok"
    /\ res' = MessageFromBinary(buf)
    /\ pc' = "Message.fromBinary"
    /\ UNCHANGED <<obj, buf, rest>>
    /\ UNCHANGED bundleVars

\* Message.fromBinary(data) for any data
CallMessageFromBinaryRaw ==
    /\ pc = "start"
    /\ \E d \in RawBuffers :
          buf' = d /\ res' = MessageFromBinary(d)
    /\ obj' = None
    /\ rest' = <<>>
    /\ pc' = "Message.fromBinary(raw)"
    /\ UNCHANGED bundleVars

\* OscSender.send(msg, addr): buf is the datagram written
send ==
    /\ pc = "start"
    /\ \E msg \in Packets :
          LET data == toBinary(msg)
          IN  obj' = msg /\ res' = data /\ buf' = data.data
    /\ rest' = <<>>
    /\ pc' = "send"
    /\ UNCHANGED bundleVars

\* OscProtocol.datagramReceived(data, addr) for the datagram sent
datagramReceived ==
    /\ pc = "send"
    /\ res.kind = "ok"
    /\ res' = MessageFromBinary(buf)
    /\ pc' = "datagramReceived"
    /\ UNCHANGED <<obj, buf, rest>>
    /\ UNCHANGED bundleVars

Next ==
    \/ CallArgumentToBinary
    \/ CallArgumentFromBinary
    \/ CallArgumentFromBinaryRaw
    \/ CallMessageToBinary
    \/ CallMessageFromBinary
    \/ CallMessageFromBinaryRaw
    \/ send
    \/ datagramReceived

Spec == Init /\ [][Next]_vars

(***************************************************************************)
(* Bundle objects.  heap holds the list objects, heap[DefaultMessages]     *)
(* being the list the default value of the parameter messages evaluated    *)
(* to when the class was defined; bundles[b].messages is a reference into  *)
(* heap.  last records the last operation and, for every bundle, the       *)
(* elements it had before that operation.                                  *)
(***************************************************************************)
DefaultMessages == 1

\* the elements of bundle b
Elements(b) == heap[bundles[b].messages]

Snapshot == [b \in 1..Len(bundles) |-> Elements(b)]

\* Bundle(): self.messages is the default value of the parameter
NewBundle ==
    /\ Len(bundles) < MaxBundles
    /\ bundles' = Append(bundles,
                     [messages |-> DefaultMessages, time_tag |-> 0])
    /\ UNCHANGED heap
    /\ last' = [op |-> "Bundle()", b |-> Len(bundles) + 1,
                before |-> Snapshot]
    /\ UNCHANGED codecVars

\* Bundle(messages=[...]) with a list the caller has just built
NewBundleWithMessages ==
    /\ Len(bundles) < MaxBundles
    /\ \E ms \in SeqsUpTo(BundleMessages, 1) :
          heap' = Append(heap, ms)
    /\ bundles' = Append(bundles,
                     [messages |-> Len(heap) + 1, time_tag |-> 0])
    /\ last' = [op |-> "Bundle(messages)", b |-> Len(bundles) + 1,
                before |-> Snapshot]
    /\ UNCHANGED codecVars

\* b.messages.append(msg)
AppendMessage ==
    /\ \E b \in 1..Len(bundles), msg \in BundleMessages :
          /\ Len(Elements(b)) < MaxListLen
          /\ heap' = [heap EXCEPT ![bundles[b].messages] = Append(@, msg)]
          /\ last' = [op |-> "append", b |-> b, before |-> Snapshot]
    /\ UNCHANGED bundles
    /\ UNCHANGED codecVars

NextBundle ==
    \/ NewBundle
    \/ NewBundleWithMessages
    \/ AppendMessage

SpecBundle == Init /\ [][NextBundle]_vars

(***************************************************************************)
(* Properties.                                                             *)
(***************************************************************************)
\* s, a NUL terminator and NULs up to the smallest multiple of 4 strictly
\* greater than Len(s)
Padded(s) == s \o [i \in 1..(4 - (Len(s) % 4)) |-> 0]

\* Message("/foo", IntArgument(1), StringArgument("bar"))
FooMessage ==
    Message(<<47, 102, 111, 111>>,
            <<Arg("Int", <<1>>), Arg("String", <<98, 97, 114>>)>>)

\* C1: decoding the encoding of a well-formed message returns a message
\* with the same address and the same arguments in the same order.
C1_MessageRoundTrip ==
    pc = "Message.fromBinary" => res.kind = "ok" /\ res.value = obj

\* C2: the length of every encoding of an argument, a message or a bundle
\* is a multiple of 4.
C2_LengthMultipleOfFour ==
    pc \in {"Argument.toBinary", "Message.toBinary", "send"}
        /\ res.kind = "ok"
      => Len(buf) % 4 = 0

\* C3: a message encodes to its padded address, then the padded string
\* made of the comma and one tag per argument, then the arguments'
\* encodings in order; Message("/foo", 1, "bar") encodes to 20 bytes:
\* "/foo" and 4 NULs, ",is" and a NUL, 00 00 00 01, "bar" and a NUL.
C3_MessageLayout ==
    /\ pc = "Message.toBinary" /\ res.kind = "ok"
         => buf = Padded(obj.address)
                    \o Padded(<<44>> \o getTypeTags(obj, FALSE))
                    \o JoinToBinary(obj.arguments).data
    /\ pc = "Message.toBinary" /\ obj = FooMessage
         => buf = <<47, 102, 111, 111, 0, 0, 0, 0, 44, 105, 115, 0,
                    0, 0, 0, 1, 98, 97, 114, 0>>

\* C4: decoding any buffer as a message either returns a message and the
\* leftover or fails with OscError; decoding an int or a float from fewer
\* than 4 bytes fails with OscError.
C4_TypedDecodeErrors ==
    /\ pc \in {"Message.fromBinary(raw)", "Message.fromBinary",
               "datagramReceived"}
         => res.kind \in {"ok", "OscError"}
    /\ pc = "Argument.fromBinary(raw)" /\ obj \in {"Int", "Float"}
          /\ Len(buf) < 4
         => res.kind = "OscError"

\* the length-prefixed encodings of the elements of a bundle, in order
RECURSIVE PrefixedElements(_)
PrefixedElements(messages) ==
    IF messages = <<>> THEN <<>>
    ELSE LET binary == toBinary(Head(messages)).data
         IN  PackInt(Len(binary)) \o binary
                \o PrefixedElements(Tail(messages))

\* C5: a bundle encodes to the 8 bytes "#bundle" NUL, the 8 bytes of its
\* time tag, then for each element in order the 4-byte big-endian length
\* of the element's encoding followed by that encoding, and nothing else.
C5_BundleLayout ==
    pc = "send" /\ ~IsMessage(obj) /\ res.kind = "ok"
      => buf = BundleLiteral \o <<0>> \o TimeTagToBinary(<<obj.time_tag>>)
                 \o PrefixedElements(obj.messages)

\* a bundle that contains a bundle that contains a message
IsNestedBundle(b) ==
    /\ ~IsMessage(b)
    /\ \E i \in 1..Len(b.messages) :
          /\ ~IsMessage(b.messages[i])
          /\ \E j \in 1..Len(b.messages[i].messages) :
                IsMessage(b.messages[i].messages[j])

\* C6: receiving the encoding of a bundle that contains a bundle that
\* contains a message yields a bundle with the same time tag and the same
\* nested elements in the same order.
C6_BundleRoundTrip ==
    pc = "datagramReceived" /\ IsNestedBundle(obj)
      => res.kind = "ok" /\ res.value = obj

\* C7: a blob of n bytes encodes to the 4-byte big-endian n and the n bytes
\* followed by NULs up to the smallest multiple of 4 that is at least n; a
\* 4-byte blob encodes to 8 bytes.
C7_BlobPadding ==
    pc = "Argument.toBinary" /\ obj.cls = "Blob"
      => LET n == Len(obj.value)
         IN  buf = PackInt(n) \o obj.value
                     \o [i \in 1..(((n + 3) \div 4) * 4 - n) |-> 0]

\* the bytes of a message buffer that follow a terminated, padded address
AfterAddress(data) == PyFrom(data, ((FindNul(data) \div 4) + 1) * 4)

\* C8: decoding a string from a buffer without a NUL fails, and so does
\* decoding a message whose address or type-tag string is unterminated.
C8_UnterminatedStringFails ==
    /\ pc = "Argument.fromBinary(raw)" /\ obj = "String"
          /\ buf # <<>> /\ FindNul(buf) = -1
         => res.kind = "OscError"
    /\ pc = "Message.fromBinary(raw)" /\ buf # <<>>
          /\ (FindNul(buf) = -1 \/ FindNul(AfterAddress(buf)) = -1)
         => res.kind = "OscError"

\* C9: a bundle constructed without a messages argument has no elements,
\* and appending to one bundle leaves the elements of every other bundle
\* as they were.
C9_OwnElementSequence ==
    /\ last.op = "Bundle()" => Elements(last.b) = <<>>
    /\ last.op = "append"
         => \A c \in 1..Len(bundles) :
               c # last.b => Elements(c) = last.before[c]

\* C10: for an int, a string or a blob, decoding the encoding followed by
\* any bytes returns the same argument and exactly those bytes as leftover.
C10_ArgumentRoundTrip ==
    pc = "Argument.fromBinary" /\ obj.cls \in {"Int", "String", "Blob"}
      => res = Decoded(obj, rest)

\* a 4-character string, encoded to 8 bytes, decoded in front of 2 bytes
C10_Witness ==
    /\ pc = "Argument.fromBinary"
    /\ obj.cls = "String"
    /\ Len(obj.value) = 4
    /\ Len(buf) = 8
    /\ Len(rest) = 2
    /\ res = Decoded(obj, rest)

====
